---- MODULE Spec2Model ----
(***************************************************************************)
(* Model of sidtime (src/src/main.rs): the civil time -> MJD -> GMST ->    *)
(* LMST -> countdown pipeline, the decimal-hours codec, the timezone       *)
(* lookup and the display loop.                                            *)
(*                                                                         *)
(* The program computes in IEEE-754 binary64.  An f64 is modelled exactly: *)
(* a finite value is sign * m * 2^e with the significand m a natural       *)
(* number of 53 bits, and every arithmetic operation computes the exact    *)
(* result and rounds it once to 53 significant bits, ties to even.  The    *)
(* naturals involved exceed the checker's machine integers, so they are    *)
(* held as little-endian sequences of 15-bit limbs.                        *)
(***************************************************************************)
EXTENDS Integers, Sequences, FiniteSets, TLC

\* Op(e), with e evaluated once: names an intermediate value
With(e, Op(_)) == CHOOSE r \in {Op(v) : v \in {e}} : TRUE

(***************************************************************************)
(* Natural numbers as little-endian sequences of limbs in 0..2^15-1 (<<>>  *)
(* is 0, the last limb is not 0).                                          *)
(***************************************************************************)
Limb == 2 ^ 15

At(b, i) == IF i <= Len(b) THEN b[i] ELSE 0

\* b without its zero limbs at the high end
BNorm(b) ==
    IF \A i \in 1..Len(b) : b[i] = 0 THEN <<>>
    ELSE SubSeq(b, 1, CHOOSE i \in 1..Len(b) :
                        b[i] # 0 /\ \A j \in (i + 1)..Len(b) : b[j] = 0)

RECURSIVE BFromInt(_)
BFromInt(n) ==
    IF n = 0 THEN <<>> ELSE <<n % Limb>> \o BFromInt(n \div Limb)

\* the value of b, for b < 2^31
BToInt(b) == At(b, 1) + Limb * At(b, 2) + Limb * Limb * At(b, 3)

\* the number of significant bits of b
BitLen(b) ==
    IF b = <<>> THEN 0
    ELSE 15 * (Len(b) - 1)
         + (CHOOSE n \in 1..15 : 2 ^ (n - 1) <= b[Len(b)] /\ b[Len(b)] < 2 ^ n)

\* a + b, limb by limb from position i with the sum so far and the carry
RECURSIVE BAddAt(_, _, _, _)
BAddAt(a, b, i, acc) ==
    IF i > Len(a) /\ i > Len(b)
    THEN (IF acc.c = 0 THEN acc.out ELSE Append(acc.out, acc.c))
    ELSE With([out |-> Append(acc.out, (At(a, i) + At(b, i) + acc.c) % Limb),
               c |-> (At(a, i) + At(b, i) + acc.c) \div Limb],
              LAMBDA nxt : BAddAt(a, b, i + 1, nxt))

BAdd(a, b) == BAddAt(a, b, 1, [out |-> <<>>, c |-> 0])

\* a - b for a >= b, limb by limb with the borrow
RECURSIVE BSubAt(_, _, _, _)
BSubAt(a, b, i, acc) ==
    IF i > Len(a) THEN BNorm(acc.out)
    ELSE With([out |-> Append(acc.out, (At(a, i) - At(b, i) - acc.c) % Limb),
               c |-> IF At(a, i) - At(b, i) - acc.c < 0 THEN 1 ELSE 0],
              LAMBDA nxt : BSubAt(a, b, i + 1, nxt))

BSub(a, b) == BSubAt(a, b, 1, [out |-> <<>>, c |-> 0])

\* a < b
BLess(a, b) ==
    IF Len(a) # Len(b) THEN Len(a) < Len(b)
    ELSE \E i \in 1..Len(a) :
            a[i] < b[i] /\ \A j \in (i + 1)..Len(a) : a[j] = b[j]

\* a * c for 0 < c <= 2^15, limb by limb with the carry
RECURSIVE BMulCAt(_, _, _, _)
BMulCAt(a, c, i, acc) ==
    IF i > Len(a) THEN acc.out \o BFromInt(acc.c)
    ELSE With([out |-> Append(acc.out, (a[i] * c + acc.c) % Limb),
               c |-> (a[i] * c + acc.c) \div Limb],
              LAMBDA nxt : BMulCAt(a, c, i + 1, nxt))

BMulC(a, c) == BMulCAt(a, c, 1, [out |-> <<>>, c |-> 0])

\* a * cs[j] * ... * cs[Len(cs)]
RECURSIVE BMulAll(_, _, _)
BMulAll(a, cs, j) ==
    IF j > Len(cs) THEN a
    ELSE With(BMulC(a, cs[j]), LAMBDA p : BMulAll(p, cs, j + 1))

\* quotient and remainder of a by c for 0 < c <= 2^15, from the high limb
\* down with the remainder so far
RECURSIVE BDivCAt(_, _, _, _)
BDivCAt(a, c, i, acc) ==
    IF i = 0 THEN [q |-> BNorm(acc.q), r |-> acc.r]
    ELSE With([q |-> <<(Limb * acc.r + a[i]) \div c>> \o acc.q,
               r |-> (Limb * acc.r + a[i]) % c],
              LAMBDA nxt : BDivCAt(a, c, i - 1, nxt))

BDivC(a, c) == BDivCAt(a, c, Len(a), [q |-> <<>>, r |-> 0])

\* floor of n / (cs[j] * ... * cs[Len(cs)]) and whether anything was dropped
RECURSIVE BDivAll(_, _, _, _)
BDivAll(n, cs, j, sticky) ==
    IF j > Len(cs) THEN [q |-> n, sticky |-> sticky]
    ELSE With(BDivC(n, cs[j]),
              LAMBDA d : BDivAll(d.q, cs, j + 1, sticky \/ d.r # 0))

\* a * 2^k
BShl(a, k) ==
    IF a = <<>> THEN <<>>
    ELSE [i \in 1..(k \div 15) |-> 0] \o BMulC(a, 2 ^ (k % 15))

\* floor of a / 2^k and whether anything was dropped
BShr(a, k) ==
    IF k \div 15 >= Len(a) THEN [q |-> <<>>, sticky |-> a # <<>>]
    ELSE With(BDivC(SubSeq(a, (k \div 15) + 1, Len(a)), 2 ^ (k % 15)),
              LAMBDA d : [q |-> d.q,
                          sticky |-> d.r # 0 \/ \E i \in 1..(k \div 15) : a[i] # 0])

\* a mod 2^k
BLowBits(a, k) ==
    IF k \div 15 >= Len(a) THEN a
    ELSE With(SubSeq(a, 1, k \div 15) \o <<a[(k \div 15) + 1] % (2 ^ (k % 15))>>,
              BNorm)

(***************************************************************************)
(* f64.  [k, s, m, e]: k is "fin", "inf" or "nan"; s is the sign bit; a    *)
(* finite non-zero value is (-1)^s * m * 2^e with 2^52 <= m < 2^53 (zero   *)
(* is m = <<>>, e = 0), so equal values have equal representations.  The   *)
(* exponent range of binary64 is never approached by the program's values  *)
(* and is left unbounded.  The sign of a NaN that an operation produces is *)
(* not observed by the program and is modelled as clear.                   *)
(***************************************************************************)
FNaN(s) == [k |-> "nan", s |-> s, m |-> <<>>, e |-> 0]
FInf(s) == [k |-> "inf", s |-> s, m |-> <<>>, e |-> 0]
FZero(s) == [k |-> "fin", s |-> s, m |-> <<>>, e |-> 0]

\* the finite value (-1)^s * m * 2^e, m of at most 53 bits
FCanon(s, m, e) ==
    IF m = <<>> THEN FZero(s)
    ELSE [k |-> "fin", s |-> s, m |-> BShl(m, 53 - BitLen(m)),
          e |-> e - (53 - BitLen(m))]

\* round to nearest, ties to even: the exact value is (-1)^s * (m + f) * 2^e
\* with 0 <= f < 1, and f > 0 exactly when sticky
FRound(s, m, e, sticky) ==
    IF BitLen(m) <= 53 THEN FCanon(s, m, e)
    ELSE With(BShr(m, BitLen(m) - 54), LAMBDA t :
         With(BShr(t.q, 1).q, LAMBDA kept :
         With(IF t.q[1] % 2 = 1 /\ (sticky \/ t.sticky \/ kept[1] % 2 = 1)
              THEN BAdd(kept, <<1>>) ELSE kept, LAMBDA r :
            IF BitLen(r) = 54
            THEN With(BShr(r, 1).q,
                      LAMBDA h : FCanon(s, h, e + (BitLen(m) - 53) + 1))
            ELSE FCanon(s, r, e + (BitLen(m) - 53)))))

\* f64::from(u32) and `as f64` of an integer below 2^53: exact
FFromBits(b) == With(b, LAMBDA v : FCanon(0, v, 0))
FFromInt(n) == FFromBits(BFromInt(n))

\* -x
FNeg(x) == With(x, LAMBDA v : [v EXCEPT !.s = 1 - v.s])

FAddV(x, y) ==
    IF x.k = "nan" \/ y.k = "nan" THEN FNaN(0)
    ELSE IF x.k = "inf" /\ y.k = "inf"
        THEN (IF x.s = y.s THEN x ELSE FNaN(0))
    ELSE IF x.k = "inf" THEN x
    ELSE IF y.k = "inf" THEN y
    ELSE IF x.m = <<>> /\ y.m = <<>>
        THEN FZero(IF x.s = 1 /\ y.s = 1 THEN 1 ELSE 0)
    ELSE IF x.m = <<>> THEN y
    ELSE IF y.m = <<>> THEN x
    ELSE With(IF x.e < y.e THEN x.e ELSE y.e, LAMBDA e :
         With(BShl(x.m, x.e - e), LAMBDA mx :
         With(BShl(y.m, y.e - e), LAMBDA my :
            IF x.s = y.s
            THEN With(BAdd(mx, my), LAMBDA sum : FRound(x.s, sum, e, FALSE))
            ELSE IF mx = my THEN FZero(0)
            ELSE IF BLess(my, mx)
            THEN With(BSub(mx, my), LAMBDA d : FRound(x.s, d, e, FALSE))
            ELSE With(BSub(my, mx), LAMBDA d : FRound(y.s, d, e, FALSE)))))

\* x + y
FAdd(x, y) == With(x, LAMBDA vx : With(y, LAMBDA vy : FAddV(vx, vy)))

\* x * c for the positive constant c = cs[1] * ... * cs[Len(cs)], each
\* factor at most 2^15
FMulC(x, cs) ==
    With(x, LAMBDA v :
        IF v.k # "fin" THEN v
        ELSE With(BMulAll(v.m, cs, 1), LAMBDA p : FRound(v.s, p, v.e, FALSE)))

\* x / c for the positive constant c = cs[1] * ... * cs[Len(cs)], each
\* factor at most 2^15 and c itself an f64
FDivC(x, cs) ==
    With(x, LAMBDA v :
        IF v.k # "fin" \/ v.m = <<>> THEN v
        ELSE With(BShl(v.m, 2 + 15 * Len(cs)), LAMBDA n :
             With(BDivAll(n, cs, 1, FALSE), LAMBDA d :
                FRound(v.s, d.q, v.e - (2 + 15 * Len(cs)), d.sticky))))

\* the magnitude of trunc(x), x finite
FTruncBits(x) ==
    IF x.m = <<>> THEN <<>>
    ELSE IF x.e >= 0 THEN BShl(x.m, x.e)
    ELSE BShr(x.m, -x.e).q

\* f64::fract: x - x.trunc(), which is exact
FFract(x) ==
    With(x, LAMBDA v :
        IF v.k # "fin" THEN FNaN(0)
        ELSE IF v.e >= 0 THEN FZero(0)
        ELSE With(BLowBits(v.m, -v.e), LAMBDA f :
                IF f = <<>> THEN FZero(0) ELSE FCanon(v.s, f, v.e)))

\* f64::is_sign_positive: the sign bit is clear (true of +0.0 and of a NaN
\* with a clear sign bit, false of -0.0)
is_sign_positive(x) == x.s = 0

\* u32::MAX
U32Max == <<Limb - 1, Limb - 1, 3>>

\* `x as u32`: truncates toward zero and saturates; NaN gives 0
AsU32(x) ==
    With(x, LAMBDA v :
        IF v.k = "nan" THEN <<>>
        ELSE IF v.s = 1 THEN <<>>
        ELSE IF v.k = "inf" THEN U32Max
        ELSE With(FTruncBits(v),
                  LAMBDA t : IF BitLen(t) > 32 THEN U32Max ELSE t))

\* the f64 nearest to n / d, for a natural n and 0 < d <= 2^15: how the
\* inputs of the model are written (F(27, 2) is 13.5, F(2399, 100) is 23.99)
F(n, d) == FDivC(FFromInt(n), <<d>>)

(***************************************************************************)
(* chrono's NaiveTime: seconds since midnight and the nanosecond fraction. *)
(***************************************************************************)
NaiveTime(h, mi, sec, ns) == [secs |-> h * 3600 + mi * 60 + sec, frac |-> ns]
hour(t) == t.secs \div 3600
minute(t) == (t.secs \div 60) % 60
second(t) == t.secs % 60
nanosecond(t) == t.frac

\* Option
None == [some |-> FALSE]
Some(v) == [some |-> TRUE, val |-> v]

\* the outcome of a call: anyhow's Result, Ok(v) or Err(message), or a panic
\* that unwinds out of the caller
Ok(v) == [kind |-> "Ok", val |-> v]
Err(msg) == [kind |-> "Err", err |-> msg]
Panic(msg) == [kind |-> "panic", err |-> msg]

\* A variant of from_hms_nano_optV that lets the hour 24 through; C4 must
\* tell it from the real one.
from_hms_nano_opt_hour24(h, mi, sec, ns) ==
    IF \/ ~BLess(h, BFromInt(25))
       \/ ~BLess(mi, BFromInt(60))
       \/ ~BLess(sec, BFromInt(60))
       \/ ~BLess(ns, BFromInt(2000000000))
    THEN None
    ELSE Some(NaiveTime(BToInt(h), BToInt(mi), BToInt(sec), BToInt(ns)))

\* NaiveTime::from_hms_nano_opt over u32 arguments: None unless every
\* field is in range
from_hms_nano_optV(h, mi, sec, ns) ==
    IF \/ ~BLess(h, BFromInt(24))
       \/ ~BLess(mi, BFromInt(60))
       \/ ~BLess(sec, BFromInt(60))
       \/ ~BLess(ns, BFromInt(2000000000))
    THEN None
    ELSE Some(NaiveTime(BToInt(h), BToInt(mi), BToInt(sec), BToInt(ns)))

from_hms_nano_opt(h, mi, sec, ns) ==
    With(<<h, mi, sec, ns>>,
         LAMBDA a : from_hms_nano_optV(a[1], a[2], a[3], a[4]))

\* A variant of utc_to_float that drops the nanosecond term; C6 must tell
\* it from the real one.
utc_to_float_whole_seconds(time) ==
    FAdd(FAdd(FFromInt(hour(time)),
              FDivC(FFromInt(minute(time)), <<60>>)),
         FDivC(FFromInt(second(time)), <<3600>>))

\* main.rs utc_to_float: hour + minute/60 + second/3600 + nanosecond/3.6e12
utc_to_float(time) ==
    FAdd(FAdd(FAdd(FFromInt(hour(time)),
                   FDivC(FFromInt(minute(time)), <<60>>)),
              FDivC(FFromInt(second(time)), <<3600>>)),
         FDivC(FFromInt(nanosecond(time)), <<3600, 1000, 1000, 1000>>))

\* A variant of decimal_to_time without the assert!; C3 must tell it from
\* the real one.
decimal_to_time_unasserted(dec_time) ==
    With(dec_time, LAMBDA hr :
         With(FMulC(FFract(hr), <<60>>), LAMBDA min :
         With(FMulC(FFract(min), <<60>>), LAMBDA sec :
         With(FMulC(FFract(sec), <<1000, 1000, 1000>>), LAMBDA ns :
         With(from_hms_nano_opt(AsU32(hr), AsU32(min), AsU32(sec), AsU32(ns)),
              LAMBDA t : IF t.some THEN Ok(t.val)
                         ELSE Err("Time conversion failed"))))))

\* main.rs decimal_to_time.  The assert! panics when the sign bit is set;
\* otherwise the fields are the truncated casts of the successive
\* fractional parts, and an out-of-range field gives Err.
decimal_to_time(dec_time) ==
    With(dec_time, LAMBDA hr :
        IF ~is_sign_positive(hr)
        THEN Panic("assertion failed: dec_time.is_sign_positive()")
        ELSE With(FMulC(FFract(hr), <<60>>), LAMBDA min :
             With(FMulC(FFract(min), <<60>>), LAMBDA sec :
             With(FMulC(FFract(sec), <<1000, 1000, 1000>>), LAMBDA ns :
             With(from_hms_nano_opt(AsU32(hr), AsU32(min), AsU32(sec), AsU32(ns)),
                  LAMBDA t : IF t.some THEN Ok(t.val)
                             ELSE Err("Time conversion failed"))))))

\* main.rs local_mean_sidereal_time: 24.0 * ((gmst + longitude / 15.0) / 24.0).fract()
local_mean_sidereal_time(gmst, longitude) ==
    FMulC(FFract(FDivC(FAdd(gmst, FDivC(longitude, <<15>>)), <<24>>)), <<24>>)

(***************************************************************************)
(* libastro's cal_mjd, called through libastro_sys: "the modified Julian   *)
(* date (number of days elapsed since 1900 jan 0.5)" of month mn, day dy   *)
(* (an f64, possibly fractional) and year yr, for Gregorian dates from     *)
(* 1583 on: the whole days up to day 0 of the month, plus dy, minus 0.5.   *)
(***************************************************************************)
cal_mjd(mn, dy, yr) ==
    LET m == IF mn < 3 THEN mn + 12 ELSE mn
        y == IF mn < 3 THEN yr - 1 ELSE yr
        a == y \div 100
        b == 2 - a + (a \div 4)
        c == ((1461 * y) \div 4) - 694025
        d == (306001 * (m + 1)) \div 10000
        whole == FFromInt(b + c + d)
    IN FAdd(FAdd(whole, dy), FNeg(F(1, 2)))

\* main.rs mjd_from_gregorian_date
mjd_from_gregorian_date(date) ==
    cal_mjd(date.month, FFromInt(date.day), date.year)

\* main.rs mjd_from_gregorian_datetime: the date's MJD plus utc_to_float of
\* the time of day
mjd_from_gregorian_datetime(datetime) ==
    FAdd(mjd_from_gregorian_date(datetime.date), utc_to_float(datetime.time))

\* libastro.rs mjd_from_gregorian: cal_mjd of the day plus hour/24 +
\* minute/60 + second/3600
mjd_from_gregorian(datetime) ==
    LET time == datetime.time
        day_frac ==
            FAdd(FAdd(FAdd(FFromInt(datetime.date.day),
                           FDivC(FFromInt(hour(time)), <<24>>)),
                      FDivC(FFromInt(minute(time)), <<60>>)),
                 FDivC(FFromInt(second(time)), <<3600>>))
    IN cal_mjd(datetime.date.month, day_frac, datetime.date.year)

(***************************************************************************)
(* Timezone lookup.  names is the answer of tzf_rs's                       *)
(* DefaultFinder::get_tz_names for the coordinate; KnownZones are the      *)
(* names chrono_tz's Tz::from_str parses.                                  *)
(***************************************************************************)
ZoneNames == {"Europe/Stockholm", "Europe/Oslo", "Mars/Olympus"}
KnownZones == {"Europe/Stockholm", "Europe/Oslo"}

Tz_from_str(name) ==
    IF name \in KnownZones THEN Ok(name) ELSE Err("unknown time zone")

\* A variant of get_timezone that takes the first of several names; C7
\* must tell it from the real one.
get_timezone_first(names) ==
    IF Len(names) = 0 THEN Err("No timezones found")
    ELSE IF Tz_from_str(names[1]).kind = "Err"
        THEN Err("Could not convert string")
    ELSE Tz_from_str(names[1])

\* main.rs get_timezone
get_timezone(names) ==
    LET tz_str ==
            CASE Len(names) = 0 -> Err("No timezones found")
              [] Len(names) = 1 -> Ok(names[1])
              [] OTHER -> Err("Todo: Allow picking a timezone name")
    IN IF tz_str.kind = "Err" THEN tz_str
       ELSE IF Tz_from_str(tz_str.val).kind = "Err"
           THEN Err("Could not convert string")
       ELSE Tz_from_str(tz_str.val)

(***************************************************************************)
(* chrono's Duration: whole seconds and nanoseconds in 0..10^9-1.          *)
(***************************************************************************)
Duration(secs, nanos) ==
    [secs |-> secs + (nanos \div 1000000000), nanos |-> nanos % 1000000000]

\* NaiveTime::signed_duration_since, for times that are not leap seconds
signed_duration_since(self, rhs) ==
    Duration(self.secs - rhs.secs, self.frac - rhs.frac)

\* Duration::num_nanoseconds, as a natural number, for d >= 0
num_nanoseconds(d) ==
    With(BMulAll(BFromInt(d.secs), <<1000, 1000, 1000>>, 1), LAMBDA whole :
    With(BFromInt(d.nanos), LAMBDA part : BAdd(whole, part)))

\* main.rs display_info: SPOTISWOODE_PEAK_TIME
SPOTISWOODE_PEAK_TIME == NaiveTime(13, 30, 0, 0)

\* A variant of time_until_peak that does not add the 24 hours; C5 must
\* tell it from the real one.
time_until_peak_nowrap(lmst_time) ==
    signed_duration_since(SPOTISWOODE_PEAK_TIME, lmst_time)

\* main.rs display_info: time_until_peak for the decoded LMST clock time
time_until_peak(lmst_time) ==
    LET duration == signed_duration_since(SPOTISWOODE_PEAK_TIME, lmst_time)
    IN IF duration.secs < 0
       THEN Duration(duration.secs + 24 * 3600, duration.nanos)
       ELSE duration

\* main.rs display_info: the countdown as decimal hours, nanoseconds as
\* f64 / 1e9 / 60 / 60
duration_hours(d) ==
    FDivC(FDivC(FDivC(FFromBits(num_nanoseconds(d)), <<1000, 1000, 1000>>),
                <<60>>), <<60>>)

(***************************************************************************)
(* The program: main parses the arguments and calls display_info, which    *)
(* resolves the timezone once and then loops, one evaluation cycle per     *)
(* iteration.                                                              *)
(***************************************************************************)
VARIABLES
    pc,         \* "main", "loop" (inside display_info's loop), "returned"
                \* (display_info has returned to main), "exit"
    latitude,   \* cli.lat: None or Some(f64)
    longitude,  \* cli.lon
    timezone,   \* display_info's timezone: None or Some(zone)
    cycles,     \* iterations of the loop that ran to their end
    last,       \* what the latest iteration computed and how it ended
    ret,        \* display_info's return value, once it has returned
    status,     \* the process: "running", "Ok" (main returned Ok(())) or
                \* "panicked"
    call        \* SpecFn only: one call of one function of main.rs

vars == <<pc, latitude, longitude, timezone, cycles, last, ret, status, call>>

MaxCycles == 2
MaxMatches == 2

\* Result::ok
ResultOk(r) == IF r.kind = "Ok" THEN Some(r.val) ELSE None

\* the answers get_tz_names may give: up to MaxMatches distinct zone names
Lookups ==
    {q \in UNION {[1..n -> ZoneNames] : n \in 0..MaxMatches} :
        \A i, j \in 1..Len(q) : i # j => q[i] # q[j]}

Latitudes == {None, Some(F(593, 10))}
Longitudes == {F(18, 1), F(0, 1), FNeg(F(150, 1))}

\* UTC instants Utc::now() may give
Dates == <<[year |-> 1900, month |-> 1, day |-> 1],
           [year |-> 2026, month |-> 11, day |-> 2],
           [year |-> 2000, month |-> 2, day |-> 29]>>
Nows == {[date |-> Dates[1], time |-> NaiveTime(0, 0, 0, 0)],
         [date |-> Dates[2], time |-> NaiveTime(12, 0, 0, 0)],
         [date |-> Dates[2], time |-> NaiveTime(23, 59, 59, 999999999)]}

\* values utc_gst may give; libastro reduces its result to [0, 24)
Gmsts == {F(1, 1), F(14, 1), F(2399, 100)}

\* how the terminal calls of one iteration go: all succeed, or the named
\* one fails
TermOutcomes == {"ok", "write_line", "flush", "clear_last_lines"}

NoCycle ==
    [outcome |-> "none", err |-> "", info |-> <<>>, mjd |-> None,
     gmst |-> None, lmst |-> None, until |-> None, shown |-> FALSE]

\* A variant of display_info_setup that returns get_timezone's error with
\* `?`; C8 must tell it from the real one.
display_info_setup_propagating(lat, names) ==
    [timezone |-> IF lat.some THEN ResultOk(get_timezone(names)) ELSE None,
     ret |-> IF lat.some /\ get_timezone(names).kind = "Err"
             THEN Some(get_timezone(names)) ELSE None]

\* main.rs display_info, lines 78-84: the timezone, and the value the
\* function returns early with (it never does)
display_info_setup(lat, names) ==
    [timezone |-> IF lat.some THEN ResultOk(get_timezone(names)) ELSE None,
     ret |-> None]

\* main.rs display_info, lines 91-107: the leading lines of info
zone_lines(lat, tz) ==
    IF lat.some /\ tz.some THEN <<"Zone", "Local Time">> ELSE <<"Longitude">>

\* main.rs display_info, lines 87-161: one iteration of the loop.  now is
\* Utc::now(), gmst the answer of utc_gst, term how the terminal calls go.
\* Each `?` returns the Err and each panic unwinds, dropping info.
cycle(now, gmst, term, lat, lon, tz) ==
    With([NoCycle EXCEPT !.mjd = Some(mjd_from_gregorian_datetime(now)),
                         !.gmst = Some(gmst),
                         !.info = zone_lines(lat, tz)
                                  \o <<"Gregorian Date", "Universal Time",
                                       "Modified Julian Day">>],
         LAMBDA c1 :
    With(decimal_to_time(gmst), LAMBDA g :
        IF g.kind # "Ok" THEN [c1 EXCEPT !.outcome = g.kind, !.err = g.err]
        ELSE
    With([c1 EXCEPT !.lmst = Some(local_mean_sidereal_time(gmst, lon)),
                    !.info = c1.info \o <<"Greenwich mean Sidereal Time">>],
         LAMBDA c2 :
    With(decimal_to_time(c2.lmst.val), LAMBDA l :
        IF l.kind # "Ok" THEN [c2 EXCEPT !.outcome = l.kind, !.err = l.err]
        ELSE
    With([c2 EXCEPT !.until = Some(time_until_peak(l.val)),
                    !.info = c2.info \o <<"Local mean Sidereal Time">>],
         LAMBDA c3 :
    With(decimal_to_time(duration_hours(c3.until.val)), LAMBDA u :
        IF u.kind # "Ok" THEN [c3 EXCEPT !.outcome = u.kind, !.err = u.err]
        ELSE [c3 EXCEPT !.info = c3.info \o <<"Time Until Spotiswoode Peak Time">>,
                        !.outcome = IF term = "ok" THEN "Ok" ELSE "Err",
                        !.err = IF term = "ok" THEN "" ELSE term,
                        !.shown = term \in {"ok", "clear_last_lines"}]))))))

\* A variant of after_cycle that goes round the loop again whatever the
\* outcome; C9 must tell it from the real one.
after_cycle_continue(outcome) == "loop"

\* where control goes after an iteration that ended with outcome
after_cycle(outcome) ==
    CASE outcome = "Ok" -> "loop"
      [] outcome = "Err" -> "returned"
      [] OTHER -> "exit"

Idle == [fn |-> "none", stage |-> 0, arg |-> None, mid |-> None, ret |-> None]

Init ==
    /\ pc = "main"
    /\ latitude = None
    /\ longitude = FZero(0)
    /\ timezone = None
    /\ cycles = 0
    /\ last = NoCycle
    /\ ret = None
    /\ status = "running"
    /\ call = Idle

\* main.rs main, lines 178-180, into display_info up to its loop
Main ==
    /\ pc = "main"
    /\ \E lat \in Latitudes, lon \in Longitudes, names \in Lookups :
        LET s == display_info_setup(lat, names)
        IN /\ latitude' = lat
           /\ longitude' = lon
           /\ timezone' = s.timezone
           /\ ret' = s.ret
           /\ pc' = IF s.ret.some THEN "returned" ELSE "loop"
    /\ UNCHANGED <<cycles, last, status, call>>

\* one iteration of display_info's loop
Cycle ==
    /\ pc = "loop"
    /\ cycles < MaxCycles
    /\ \E now \in Nows, gmst \in Gmsts, term \in TermOutcomes :
        \E c \in {cycle(now, gmst, term, latitude, longitude, timezone)} :
           /\ last' = c
           /\ cycles' = IF c.outcome = "Ok" THEN cycles + 1 ELSE cycles
           /\ pc' = after_cycle(c.outcome)
           /\ ret' = IF c.outcome = "Err" THEN Some(Err(c.err)) ELSE ret
           /\ status' = IF c.outcome = "panic" THEN "panicked" ELSE status
    /\ UNCHANGED <<latitude, longitude, timezone, call>>

\* main.rs main, lines 180-181: display_info's result is dropped and main
\* returns Ok(())
MainReturn ==
    /\ pc = "returned"
    /\ pc' = "exit"
    /\ status' = "Ok"
    /\ UNCHANGED <<latitude, longitude, timezone, cycles, last, ret, call>>

Next == Main \/ Cycle \/ MainReturn

Spec == Init /\ [][Next]_vars

(***************************************************************************)
(* The functions of main.rs and libastro.rs one call at a time: the        *)
(* initial state holds a function and its argument, an action applies it.  *)
(***************************************************************************)
ClockTimes ==
    {NaiveTime(h, mi, sec, ns) :
        h \in {0, 10, 13, 14, 23}, mi \in {0, 30, 59}, sec \in {0, 13, 59},
        ns \in {0, 1, 999999999}}

\* the largest f64 below 24
F24Pred ==
    [k |-> "fin", s |-> 0, m |-> <<Limb - 1, Limb - 1, Limb - 1, 191>>, e |-> -48]

Decimals ==
    {FZero(0), FZero(1), F(1, 2), F(27, 2), F(2399, 100), F24Pred, F(24, 1),
     F(51, 2), F(100, 1), FMulC(F(5, 1), <<1000, 1000, 1000>>),
     FNeg(F(1, 2)), FNeg(F(9, 1)), FNeg(F(24, 1)),
     FNaN(0), FNaN(1), FInf(0), FInf(1)}

LmstArgs ==
    {[gmst |-> g, longitude |-> lon] :
        g \in {FZero(0), F(1, 1), F(13, 2), F(14, 1), F(2399, 100)},
        lon \in {FNeg(F(359, 2)), FNeg(F(150, 1)), FNeg(F(1, 2)), FZero(0),
                 F(1807, 100), F(150, 1), F(180, 1)}}

DateTimes ==
    {[date |-> Dates[i], time |-> t] :
        i \in 1..Len(Dates),
        t \in {NaiveTime(0, 0, 0, 0), NaiveTime(6, 30, 15, 500000000),
               NaiveTime(12, 0, 0, 0), NaiveTime(23, 59, 59, 999999999)}}

FnCall(fn, arg) ==
    [fn |-> fn, stage |-> 0, arg |-> arg, mid |-> None, ret |-> None]

FnCalls ==
    {FnCall("round_trip", t) : t \in ClockTimes}
    \cup {FnCall("decimal_to_time", x) : x \in Decimals}
    \cup {FnCall("local_mean_sidereal_time", a) : a \in LmstArgs}
    \cup {FnCall("mjd_from_gregorian_datetime", d) : d \in DateTimes}
    \cup {FnCall("mjd_from_gregorian", d) : d \in DateTimes}
    \cup {FnCall("get_timezone", q) : q \in Lookups}
    \cup {FnCall("time_until_peak", t) : t \in ClockTimes}

InitFn ==
    /\ pc = "main"
    /\ latitude = None
    /\ longitude = FZero(0)
    /\ timezone = None
    /\ cycles = 0
    /\ last = NoCycle
    /\ ret = None
    /\ status = "running"
    /\ call \in FnCalls

progvars == <<pc, latitude, longitude, timezone, cycles, last, ret, status>>

\* utc_to_float of a clock time ...
Encode ==
    /\ call.fn = "round_trip"
    /\ call.stage = 0
    /\ call' = [call EXCEPT !.mid = Some(utc_to_float(call.arg)), !.stage = 1]
    /\ UNCHANGED progvars

\* ... and decimal_to_time of the result
Decode ==
    /\ call.fn = "round_trip"
    /\ call.stage = 1
    /\ call' = [call EXCEPT !.ret = Some(decimal_to_time(call.mid.val)),
                            !.stage = 2]
    /\ UNCHANGED progvars

CallDecimalToTime ==
    /\ call.fn = "decimal_to_time"
    /\ call.stage = 0
    /\ call' = [call EXCEPT !.ret = Some(decimal_to_time(call.arg)),
                            !.stage = 2]
    /\ UNCHANGED progvars

CallLmst ==
    /\ call.fn = "local_mean_sidereal_time"
    /\ call.stage = 0
    /\ call' = [call EXCEPT !.ret = Some(local_mean_sidereal_time(
                                call.arg.gmst, call.arg.longitude)),
                            !.stage = 2]
    /\ UNCHANGED progvars

\* mid keeps mjd_from_gregorian_date of the same date
CallMjdDatetime ==
    /\ call.fn = "mjd_from_gregorian_datetime"
    /\ call.stage = 0
    /\ call' = [call EXCEPT !.mid = Some(mjd_from_gregorian_date(call.arg.date)),
                            !.ret = Some(mjd_from_gregorian_datetime(call.arg)),
                            !.stage = 2]
    /\ UNCHANGED progvars

CallMjdFromGregorian ==
    /\ call.fn = "mjd_from_gregorian"
    /\ call.stage = 0
    /\ call' = [call EXCEPT !.ret = Some(mjd_from_gregorian(call.arg)),
                            !.stage = 2]
    /\ UNCHANGED progvars

CallGetTimezone ==
    /\ call.fn = "get_timezone"
    /\ call.stage = 0
    /\ call' = [call EXCEPT !.ret = Some(get_timezone(call.arg)),
                            !.stage = 2]
    /\ UNCHANGED progvars

CallTimeUntilPeak ==
    /\ call.fn = "time_until_peak"
    /\ call.stage = 0
    /\ call' = [call EXCEPT !.ret = Some(time_until_peak(call.arg)),
                            !.stage = 2]
    /\ UNCHANGED progvars

NextFn ==
    \/ Encode
    \/ Decode
    \/ CallDecimalToTime
    \/ CallLmst
    \/ CallMjdDatetime
    \/ CallMjdFromGregorian
    \/ CallGetTimezone
    \/ CallTimeUntilPeak

SpecFn == InitFn /\ [][NextFn]_vars

(***************************************************************************)
(* The claims.                                                             *)
(***************************************************************************)

\* C1 (as claimed; refuted under SpecFn): local_mean_sidereal_time(gmst,
\* longitude) is the floored remainder of gmst + longitude/15 modulo 24, so it
\* lies in [0, 24), and gmst = 1.0 with longitude = -150 gives 15.0.
C1_LmstIsFlooredRemainder ==
    (call.fn = "local_mean_sidereal_time" /\ call.stage = 2) =>
        LET lmst == call.ret.val
        IN /\ lmst.k = "fin"
           /\ lmst.m = <<>> \/ lmst.s = 0
           /\ BLess(FTruncBits(lmst), BFromInt(24))
           /\ (call.arg.gmst = F(1, 1) /\ call.arg.longitude = FNeg(F(150, 1)))
                 => lmst = F(15, 1)

\* C2 (as claimed; refuted under SpecFn): mjd_from_gregorian_datetime(d, t) is
\* mjd_from_gregorian_date(d) plus hour/24 + minute/1440 + second/86400 +
\* nanosecond/8.64e13, so the time of day adds a value in [0, 1) days.
C2_MjdAddsFractionOfDay ==
    (call.fn = "mjd_from_gregorian_datetime" /\ call.stage = 2) =>
        LET t == call.arg.time
            fractional_day ==
                FAdd(FAdd(FAdd(FDivC(FFromInt(hour(t)), <<24>>),
                               FDivC(FFromInt(minute(t)), <<1440>>)),
                          FDivC(FFromInt(second(t)), <<3600, 24>>)),
                     FDivC(FFromInt(nanosecond(t)),
                           <<3600, 24, 1000, 1000, 1000>>))
            added == FAdd(call.ret.val, FNeg(call.mid.val))
        IN /\ call.ret.val = FAdd(call.mid.val, fractional_day)
           /\ added.k = "fin"
           /\ added.m = <<>> \/ (added.s = 0 /\ FTruncBits(added) = <<>>)

\* C3 (as claimed; refuted under SpecFn): decimal_to_time of a negative value
\* returns an error value to its caller and does not abort.
C3_NegativeReturnsErr ==
    (/\ call.fn = "decimal_to_time"
     /\ call.stage = 2
     /\ call.arg.s = 1
     /\ call.arg.k = "inf" \/ (call.arg.k = "fin" /\ call.arg.m # <<>>))
        => call.ret.val.kind = "Err"

\* C3 (amended): decimal_to_time of a negative value panics at its assert!;
\* it returns neither an error value nor a clock time.
C3_NegativePanics ==
    (/\ call.fn = "decimal_to_time"
     /\ call.stage = 2
     /\ call.arg.s = 1
     /\ call.arg.k = "inf" \/ (call.arg.k = "fin" /\ call.arg.m # <<>>))
        => call.ret.val =
               Panic("assertion failed: dec_time.is_sign_positive()")

\* C3 witness: decimal_to_time(-0.5) has panicked
C3_NegativeHalfPanicked ==
    /\ call.fn = "decimal_to_time"
    /\ call.stage = 2
    /\ call.arg = FNeg(F(1, 2))
    /\ call.ret.val.kind = "panic"

\* C4 (as claimed; refuted under SpecFn): decimal_to_time succeeds for every
\* finite non-negative value, 24 and more included, and fails only on
\* negative, NaN and infinite values.
C4_DecodesEveryFiniteNonNegative ==
    (call.fn = "decimal_to_time" /\ call.stage = 2) =>
        (call.ret.val.kind = "Ok" <=> (call.arg.k = "fin" /\ call.arg.s = 0))

\* C4 (amended): decimal_to_time succeeds exactly when the sign bit is clear
\* and the value is finite and below 24, or is NaN; a finite non-negative
\* value of 24 or more, and +infinity, give the error "Time conversion
\* failed", and a value with the sign bit set panics.
C4_DecodesBelow24 ==
    (call.fn = "decimal_to_time" /\ call.stage = 2) =>
        LET x == call.arg
            r == call.ret.val
            below24 == x.k = "fin" /\ BLess(FTruncBits(x), BFromInt(24))
        IN /\ r.kind = "Ok" <=> (x.s = 0 /\ (below24 \/ x.k = "nan"))
           /\ (x.s = 0 /\ ~below24 /\ x.k # "nan")
                 => r = Err("Time conversion failed")
           /\ x.s = 1 => r.kind = "panic"

\* C4 witness: decimal_to_time(24.0) has given the error
C4_Hour24Refused ==
    /\ call.fn = "decimal_to_time"
    /\ call.stage = 2
    /\ call.arg = F(24, 1)
    /\ call.ret.val = Err("Time conversion failed")

\* C5 (holds under SpecFn): the countdown is target - current, plus 24 hours
\* when that is negative: it lies in [0, 24h) and current + countdown is the
\* target 13:30:00 modulo 24 hours; 14:00:00 gives 23:30:00 and 10:00:00
\* gives 03:30:00.
C5_CountdownWraps ==
    (call.fn = "time_until_peak" /\ call.stage = 2) =>
        LET cur == call.arg
            d == call.ret.val
            carry == (cur.frac + d.nanos) \div 1000000000
        IN /\ d.secs \in 0..(24 * 3600 - 1)
           /\ d.nanos \in 0..999999999
           /\ (cur.frac + d.nanos) % 1000000000 = 0
           /\ (cur.secs + d.secs + carry) % (24 * 3600) = 13 * 3600 + 30 * 60
           /\ cur = NaiveTime(14, 0, 0, 0) => d = [secs |-> 23 * 3600 + 30 * 60, nanos |-> 0]
           /\ cur = NaiveTime(10, 0, 0, 0) => d = [secs |-> 3 * 3600 + 30 * 60, nanos |-> 0]

\* C5 witness: the countdown from 14:00:00 has wrapped to 23:30:00
C5_WrappedFrom14 ==
    /\ call.fn = "time_until_peak"
    /\ call.stage = 2
    /\ call.arg = NaiveTime(14, 0, 0, 0)
    /\ call.ret.val.secs = 23 * 3600 + 30 * 60

\* C6 (as claimed; refuted under SpecFn): decimal_to_time(utc_to_float(t)) is
\* t to within a microsecond, with the hour, minute and second of t.
C6_RoundTripKeepsFields ==
    (call.fn = "round_trip" /\ call.stage = 2) =>
        /\ call.ret.val.kind = "Ok"
        /\ LET t == call.arg
               u == call.ret.val.val
           IN /\ hour(u) = hour(t)
              /\ minute(u) = minute(t)
              /\ second(u) = second(t)
              /\ u.frac - t.frac \in -999..999

\* C6 (amended): decimal_to_time(utc_to_float(t)) is a clock time less than a
\* microsecond from t; its second, minute and hour fields may differ from
\* those of t when it falls just short of a whole second.
C6_RoundTripWithinMicrosecond ==
    (call.fn = "round_trip" /\ call.stage = 2) =>
        /\ call.ret.val.kind = "Ok"
        /\ LET t == call.arg
               u == call.ret.val.val
           IN \/ u.secs = t.secs /\ u.frac - t.frac \in -999..999
              \/ u.secs = t.secs - 1 /\ t.frac + 1000000000 - u.frac \in 0..999
              \/ u.secs = t.secs + 1 /\ u.frac + 1000000000 - t.frac \in 0..999

\* C6 witness: 00:00:13 has come back as 00:00:12.999999999
C6_SecondFellShort ==
    /\ call.fn = "round_trip"
    /\ call.stage = 2
    /\ call.arg = NaiveTime(0, 0, 13, 0)
    /\ call.ret.val = Ok(NaiveTime(0, 0, 12, 999999999))

\* C7 (holds under SpecFn): get_timezone returns a zone only when the lookup
\* gave exactly one name, and then that one; no name is an error ("No
\* timezones found"), two or more are an error ("Todo: Allow picking a
\* timezone name") and none of them is picked.
C7_OnlyASingleMatchResolves ==
    (call.fn = "get_timezone" /\ call.stage = 2) =>
        LET names == call.arg
            r == call.ret.val
        IN /\ r.kind \in {"Ok", "Err"}
           /\ r.kind = "Ok" => (Len(names) = 1 /\ r.val = names[1])
           /\ Len(names) = 0 => r = Err("No timezones found")
           /\ Len(names) >= 2 => r = Err("Todo: Allow picking a timezone name")

\* C7 witness: a lookup with two names has been refused
C7_TwoNamesRefused ==
    /\ call.fn = "get_timezone"
    /\ call.stage = 2
    /\ Len(call.arg) = 2
    /\ call.ret.val.kind = "Err"

\* C8 (holds under Spec): a failed timezone resolution, or no latitude, does
\* not end display_info: it enters its loop all the same, and a cycle that
\* runs to its end without a timezone has computed MJD, GMST, LMST and the
\* countdown and reports every line except the zone name and the local time.
C8_TimezoneFailureOnlyDropsZoneLines ==
    /\ (pc # "main" /\ last.outcome = "none") => (pc = "loop" /\ ~ret.some)
    /\ (~timezone.some /\ last.outcome = "Ok") =>
          /\ last.mjd.some /\ last.gmst.some /\ last.lmst.some /\ last.until.some
          /\ last.shown
          /\ last.info = <<"Longitude", "Gregorian Date", "Universal Time",
                           "Modified Julian Day", "Greenwich mean Sidereal Time",
                           "Local mean Sidereal Time",
                           "Time Until Spotiswoode Peak Time">>

\* C8 witness: with a latitude but no timezone resolved, a cycle has run to
\* its end and reported the longitude in place of the zone
C8_CycleWithoutTimezone ==
    /\ latitude.some
    /\ ~timezone.some
    /\ last.outcome = "Ok"
    /\ cycles >= 1
    /\ last.info[1] = "Longitude"

\* C9 (as claimed; refuted under Spec): a cycle that fails leaves the loop
\* running, so the following cycle is still evaluated.
C9_FailedCycleKeepsLooping ==
    last.outcome \in {"Err", "panic"} => pc = "loop"

\* C9 (amended): a cycle that fails ends the loop: its error returns from
\* display_info, or its panic ends the process, and no later cycle is
\* evaluated.
C9_FailedCycleEndsLoop ==
    last.outcome \in {"Err", "panic"} =>
        /\ pc \in {"returned", "exit"}
        /\ ~ENABLED Cycle
        /\ last.outcome = "Err" => ret = Some(Err(last.err))
        /\ last.outcome = "panic" => status = "panicked"

\* C9 witness: after a cycle that ran to its end, a cycle has failed and
\* display_info has returned its error
C9_FailureAfterACycle ==
    /\ cycles >= 1
    /\ last.outcome = "Err"
    /\ pc = "returned"
    /\ ret.some

\* C10 (as claimed; refuted under Spec): the process ends only by main
\* returning Ok(()), after some cycle has failed with an error that main
\* discards; it never reports a failure.
C10_ProcessNeverFails ==
    /\ status # "panicked"
    /\ pc = "exit" => (status = "Ok" /\ last.outcome = "Err" /\ ret.some)

====
